---- MODULE Spec2Model ----
(***************************************************************************)
(* Model of sources/dataset.py (class Dataset): the catalog of classes and *)
(* images, glossary loading, directory population, class popularity and    *)
(* JSON persistence.                                                       *)
(*                                                                         *)
(* Python strings are sequences of one-character strings, so that split,   *)
(* join, str() and int() are computed and not assumed.  An optional value  *)
(* is a sequence of length at most one: None is <<>>, a present value v is *)
(* <<v>>.                                                                  *)
(***************************************************************************)
EXTENDS Integers, Sequences, FiniteSets, TLC

VARIABLES image_size, class_info, image_info, disk, saved, glossary, call

vars == <<image_size, class_info, image_info, disk, saved, glossary, call>>

\* ------------------------------------------------------------------ bounds

\* longest label list of a glossary document read by the constructor
MaxLabels == 3
\* largest side, in pixels, of a raw image
MaxSide == 2

\* ----------------------------------------------------------------- helpers

None == <<>>
Some(v) == <<v>>

EmptyDict == [k \in {} |-> None]

Max2(a, b) == IF a >= b THEN a ELSE b

RECURSIVE SeqsUpTo(_, _)
SeqsUpTo(S, n) ==
    IF n = 0 THEN {<<>>}
    ELSE LET shorter == SeqsUpTo(S, n - 1)
         IN  shorter \cup {Append(s, x) : s \in {t \in shorter : Len(t) = n - 1}, x \in S}

\* ------------------------------------------------------- python str methods

\* first index j >= 1 at which "--" starts in s, 0 when there is none
RECURSIVE find_sep(_, _)
find_sep(s, j) ==
    IF j + 1 > Len(s) THEN 0
    ELSE IF s[j] = "-" /\ s[j + 1] = "-" THEN j
    ELSE find_sep(s, j + 1)

\* s.split('--'): left to right, non-overlapping
RECURSIVE split(_)
split(s) ==
    LET j == find_sep(s, 1)
    IN  IF j = 0 THEN <<s>>
        ELSE <<SubSeq(s, 1, j - 1)>> \o split(SubSeq(s, j + 2, Len(s)))

\* '-'.join(items)
RECURSIVE join(_)
join(items) ==
    IF Len(items) = 0 THEN <<>>
    ELSE IF Len(items) = 1 THEN items[1]
    ELSE items[1] \o <<"-">> \o join(Tail(items))

\* --------------------------------------------------------------- add_class

add_class_overwrite(ci, class_id, class_name, color, category) ==
    [k \in DOMAIN ci \cup {class_id} |->
        IF k = class_id
        THEN [name |-> class_name, category |-> category, color |-> color]
        ELSE ci[k]]

\* the class table after add_class(class_id, class_name, color, category)
add_class_effect(ci, class_id, class_name, color, category) ==
    IF class_id \in DOMAIN ci
    THEN ci
    ELSE [k \in DOMAIN ci \cup {class_id} |->
            IF k = class_id
            THEN [name |-> class_name, category |-> category, color |-> color]
            ELSE ci[k]]

\* ----------------------------------------------------------- build_glossary

\* category = '-'.join(name_items[:-1]), always a string
label_category(name_items) ==
    Some(join(SubSeq(name_items, 1, Len(name_items) - 1)))

label_id_dense(labels, n) ==
    Cardinality({i \in 1..(n - 1) : labels[i].evaluate})

\* enumerate(glossary["labels"]): the id of the n-th label (1-based n)
label_id(labels, n) == n - 1

\* the loop of build_glossary over the first n labels
RECURSIVE glossary_loop(_, _, _)
glossary_loop(ci, labels, n) ==
    IF n = 0 THEN ci
    ELSE LET before == glossary_loop(ci, labels, n - 1)
             label == labels[n]
             name_items == split(label.name)
         IN  IF label.evaluate
             THEN add_class_effect(before, label_id(labels, n),
                                   name_items[Len(name_items)], label.color,
                                   label_category(name_items))
             ELSE before

\* the class table after build_glossary(config_filename) on class table ci
build_glossary(ci, doc) ==
    IF ~doc.has_labels THEN ci
    ELSE glossary_loop(ci, doc.labels, Len(doc.labels))

\* --------------------------------------------------------------- add_image

add_image_overwrite(ii, image_id, raw_filename, image_filename, label_filename, labels) ==
    [k \in DOMAIN ii \cup {image_id} |->
        IF k = image_id
        THEN [raw_filename |-> raw_filename, image_filename |-> image_filename,
              label_filename |-> label_filename, labels |-> labels]
        ELSE ii[k]]

\* the image table after add_image(image_id, raw_filename, image_filename,
\* label_filename, labels)
add_image_effect(ii, image_id, raw_filename, image_filename, label_filename, labels) ==
    IF image_id \in DOMAIN ii
    THEN ii
    ELSE [k \in DOMAIN ii \cup {image_id} |->
            IF k = image_id
            THEN [raw_filename |-> raw_filename, image_filename |-> image_filename,
                  label_filename |-> label_filename, labels |-> labels]
            ELSE ii[k]]

\* ------------------------------------------------------ get_class_popularity

get_nb_class(ci) == Cardinality(DOMAIN ci)

get_nb_images(ii) == Cardinality(DOMAIN ii)

\* np.round(num / den, 3) in thousandths, ties to the even neighbour
round3(num, den) ==
    LET q == (1000 * num) \div den
        r == (1000 * num) % den
    IN  IF 2 * r < den THEN q
        ELSE IF 2 * r > den THEN q + 1
        ELSE IF q % 2 = 0 THEN q ELSE q + 1

\* sum(np.array(labels)): the rows added one after the other, elementwise
RECURSIVE sum_rows(_, _, _)
sum_rows(ii, ids, width) ==
    IF ids = {} THEN [k \in 1..width |-> 0]
    ELSE LET im == CHOOSE x \in ids : TRUE
             rest == sum_rows(ii, ids \ {im}, width)
         IN  [k \in 1..width |-> rest[k] + ii[im].labels[k]]

\* np.array(labels) is a matrix only when every label list has one length
label_lengths(ii) == {Len(ii[im].labels) : im \in DOMAIN ii}

popularity_unguarded(ii) ==
    IF get_nb_images(ii) = 0 \/ Cardinality(label_lengths(ii)) > 1
    THEN [raised |-> TRUE, value |-> None]
    ELSE LET width == CHOOSE n \in label_lengths(ii) : TRUE
             total == sum_rows(ii, DOMAIN ii, width)
         IN  [raised |-> FALSE,
              value |-> Some([k \in 1..width |-> round3(total[k], get_nb_images(ii))])]

\* what get_class_popularity() returns (value) or that it raises (raised)
popularity(ii) ==
    IF get_nb_images(ii) = 0
    THEN [raised |-> FALSE, value |-> None]
    ELSE IF Cardinality(label_lengths(ii)) > 1
    THEN [raised |-> TRUE, value |-> None]
    ELSE LET width == CHOOSE n \in label_lengths(ii) : TRUE
             total == sum_rows(ii, DOMAIN ii, width)
         IN  [raised |-> FALSE,
              value |-> Some([k \in 1..width |-> round3(total[k], get_nb_images(ii))])]

\* ---------------------------------------------------------------- json keys

Digits == <<"0", "1", "2", "3", "4", "5", "6", "7", "8", "9">>

\* str(n) of an integer key, as json.dump writes it
RECURSIVE str_nat(_)
str_nat(n) ==
    IF n < 10 THEN <<Digits[n + 1]>>
    ELSE str_nat(n \div 10) \o <<Digits[(n % 10) + 1]>>

str_int(n) == IF n < 0 THEN <<"-">> \o str_nat(0 - n) ELSE str_nat(n)

digit_value(c) == (CHOOSE d \in 1..10 : Digits[d] = c) - 1

\* int(k) of a document key
RECURSIVE int_digits(_)
int_digits(s) ==
    IF Len(s) = 0 THEN 0
    ELSE 10 * int_digits(SubSeq(s, 1, Len(s) - 1)) + digit_value(s[Len(s)])

int_str(s) == IF s[1] = "-" THEN 0 - int_digits(Tail(s)) ELSE int_digits(s)

\* json.dump of a dict with integer keys: the keys become strings
json_dump_dict(d) ==
    [ks \in {str_int(k) : k \in DOMAIN d} |->
        d[CHOOSE k \in DOMAIN d : str_int(k) = ks]]

\* the document save(filename) writes
save_document(size, ci, ii) ==
    [image_size |-> size, classes |-> json_dump_dict(ci), images |-> json_dump_dict(ii)]

\* {int(k): d[k] for k in d.keys()}
load_int_keys(d) ==
    [n \in {int_str(k) : k \in DOMAIN d} |->
        d[CHOOSE k \in DOMAIN d : int_str(k) = n]]

load_catalog_without_images(doc) ==
    [image_size |-> doc.image_size,
     class_info |-> load_int_keys(doc.classes),
     image_info |-> EmptyDict]

\* the three fields load(filename) assigns from the document
load_catalog(doc) ==
    [image_size |-> doc.image_size,
     class_info |-> load_int_keys(doc.classes),
     image_info |-> load_int_keys(doc.images)]

\* ----------------------------------------------------------------- populate

\* a file of the images directory: [stem, ext, size, mask]; its path in
\* directory sub of datadir
path(datadir, sub, file) == [dir |-> datadir, sub |-> sub, stem |-> file.stem, ext |-> file.ext]

\* filename.replace(old + "/", new + "/") on the directory segment
replace_sub(p, old, new) == IF p.sub = old THEN [p EXCEPT !.sub = new] ELSE p

\* filename.replace(".jpg", ".png")
replace_ext(p, old, new) == IF p.ext = old THEN [p EXCEPT !.ext = new] ELSE p

\* utils.resize_image(img, size): the shorter side becomes size, the other
\* one is scaled by the same ratio and rounded to the nearest integer
resize_image(wh, size) ==
    LET w == wh[1]
        h == wh[2]
    IN  IF w <= h
        THEN <<size, (2 * h * size + w) \div (2 * w)>>
        ELSE <<(2 * w * size + h) \div (2 * h), size>>

\* utils.mono_crop_image(img, crop_pix): the box (left, upper, right, lower)
\* of the square window at crop_pix along the longer side
mono_crop_image(wh, crop_pix) ==
    IF wh[1] > wh[2]
    THEN <<crop_pix, 0, crop_pix + wh[2], wh[2]>>
    ELSE <<0, crop_pix, wh[1], crop_pix + wh[1]>>

\* np.random.randint(low, high): low <= value < high
randint(low, high) == low..(high - 1)

crop_pix_values_full_side(resized, size) ==
    randint(0, 1 + Max2(resized[1], resized[2]))

\* the values crop_pix can take for a resized image
crop_pix_values(resized, size) ==
    randint(0, 1 + Max2(resized[1], resized[2]) - size)

\* utils.mapillary_label_building(img, nb_labels): one 0-1 entry per class
\* rank, 1 when the mask shows that class
mapillary_label_building(mask, nb_labels) ==
    [k \in 1..nb_labels |-> IF (k - 1) \in mask THEN 1 ELSE 0]

\* what one turn of the loop of populate computes for the file at position n
\* (1-based) of the listing, with crop_pix drawn once
populate_pair(datadir, file, n, size, nb_class, crop_pix) ==
    LET image_filename == path(datadir, "images", file)
        label_filename == replace_ext(replace_sub(image_filename, "images", "labels"),
                                      "jpg", "png")
        img_in == resize_image(file.size, size)
        img_out == resize_image(file.size, size)
        new_filename == replace_sub(image_filename, "images", "input")
    IN  [image_id |-> n - 1,
         raw_filename |-> image_filename,
         image_filename |-> new_filename,
         label_filename |-> label_filename,
         labels |-> mapillary_label_building(file.mask, nb_class),
         img_in |-> img_in,
         img_out |-> img_out,
         crop_pix |-> crop_pix,
         box_in |-> mono_crop_image(img_in, crop_pix),
         box_out |-> mono_crop_image(img_out, crop_pix)]

populate_loop_fresh_ids(ii, pairs, n) ==
    [k \in 0..(n - 1) |->
        [raw_filename |-> pairs[k + 1].raw_filename,
         image_filename |-> pairs[k + 1].image_filename,
         label_filename |-> pairs[k + 1].label_filename,
         labels |-> pairs[k + 1].labels]]

\* the image table after the first n turns of the loop of populate
RECURSIVE populate_loop(_, _, _)
populate_loop(ii, pairs, n) ==
    IF n = 0 THEN ii
    ELSE add_image_effect(populate_loop(ii, pairs, n - 1), pairs[n].image_id,
                          pairs[n].raw_filename, pairs[n].image_filename,
                          pairs[n].label_filename, pairs[n].labels)

\* ------------------------------------------------------------------ actions

\* the lists of n values that repeat one value of Bits
ConstantVectors(n, Bits) == {[k \in 1..n |-> b] : b \in Bits}

catalog == [image_size |-> image_size, class_info |-> class_info, image_info |-> image_info]

\* Dataset(image_size, glossary_filename), glossary being the document the
\* file holds
construct(Sizes) ==
    \E size \in Sizes :
        /\ call.op = "new"
        /\ image_size' = size
        /\ class_info' = build_glossary(EmptyDict, glossary)
        /\ image_info' = EmptyDict
        /\ call' = [op |-> "__init__"]
        /\ UNCHANGED <<disk, saved, glossary>>

add_class(Ids, Args) ==
    \E class_id \in Ids, a \in Args :
        /\ class_info' = add_class_effect(class_info, class_id, a.name, a.color, a.category)
        /\ call' = [op |-> "add_class", id |-> class_id, args |-> a, raised |-> FALSE]
        /\ UNCHANGED <<image_size, image_info, disk, saved, glossary>>

\* labels is a list of as many 0-1 values as the dataset has classes
add_image(Ids, Args, Bits) ==
    \E image_id \in Ids, a \in Args, labels \in ConstantVectors(get_nb_class(class_info), Bits) :
        /\ image_info' = add_image_effect(image_info, image_id, a.raw_filename,
                                          a.image_filename, a.label_filename, labels)
        /\ call' = [op |-> "add_image", id |-> image_id,
                    args |-> [raw_filename |-> a.raw_filename,
                              image_filename |-> a.image_filename,
                              label_filename |-> a.label_filename,
                              labels |-> labels],
                    nb_class |-> get_nb_class(class_info),
                    raised |-> FALSE]
        /\ UNCHANGED <<image_size, class_info, disk, saved, glossary>>

get_class(Ids) ==
    \E class_id \in Ids :
        /\ call' = [op |-> "get_class", id |-> class_id,
                    value |-> IF class_id \in DOMAIN class_info
                              THEN Some(class_info[class_id]) ELSE None,
                    raised |-> FALSE]
        /\ UNCHANGED <<image_size, class_info, image_info, disk, saved, glossary>>

get_image(Ids) ==
    \E image_id \in Ids :
        /\ call' = [op |-> "get_image", id |-> image_id,
                    value |-> IF image_id \in DOMAIN image_info
                              THEN Some(image_info[image_id]) ELSE None,
                    raised |-> FALSE]
        /\ UNCHANGED <<image_size, class_info, image_info, disk, saved, glossary>>

get_class_popularity ==
    /\ call' = [op |-> "get_class_popularity",
                value |-> popularity(image_info).value,
                raised |-> popularity(image_info).raised]
    /\ UNCHANGED <<image_size, class_info, image_info, disk, saved, glossary>>

\* the crop offsets the first n files of a listing can draw, one per file
RECURSIVE crop_draws(_, _, _)
crop_draws(files, size, n) ==
    IF n = 0 THEN {<<>>}
    ELSE {Append(d, x) : d \in crop_draws(files, size, n - 1),
                         x \in crop_pix_values(resize_image(files[n].size, size), size)}

populate(Dirs, Listings) ==
    \E datadir \in Dirs, files \in Listings :
        \E draws \in crop_draws(files, image_size, Len(files)) :
            LET pairs == [n \in 1..Len(files) |->
                            populate_pair(datadir, files[n], n, image_size,
                                          get_nb_class(class_info), draws[n])]
            IN  /\ image_info' = populate_loop(image_info, pairs, Len(files))
                /\ call' = [op |-> "populate", pairs |-> pairs,
                            nb_class |-> get_nb_class(class_info), raised |-> FALSE]
                /\ UNCHANGED <<image_size, class_info, disk, saved, glossary>>

save ==
    /\ disk' = Some(save_document(image_size, class_info, image_info))
    /\ saved' = Some(catalog)
    /\ call' = [op |-> "save", raised |-> FALSE]
    /\ UNCHANGED <<image_size, class_info, image_info, glossary>>

\* open(filename) raises when no file was saved
load ==
    IF disk = None
    THEN /\ call' = [op |-> "load", raised |-> TRUE]
         /\ UNCHANGED <<image_size, class_info, image_info, disk, saved, glossary>>
    ELSE LET loaded == load_catalog(disk[1])
         IN  /\ image_size' = loaded.image_size
             /\ class_info' = loaded.class_info
             /\ image_info' = loaded.image_info
             /\ call' = [op |-> "load", raised |-> FALSE]
             /\ UNCHANGED <<disk, saved, glossary>>

\* ------------------------------------------------------------------- inputs

Colors == {<<0, 0, 0>>, <<0, 0, 255>>}

\* label names of one, two and three segments
LabelNames == {<<"a">>, <<"a", "-", "-", "b">>, <<"a", "-", "-", "b", "-", "-", "c">>}

GlossaryLabels == [name : LabelNames, color : Colors, evaluate : BOOLEAN]

\* the glossary documents: without a "labels" key, or with up to n labels
Glossaries(n) ==
    {[has_labels |-> FALSE, labels |-> <<>>]}
    \cup {[has_labels |-> TRUE, labels |-> l] : l \in SeqsUpTo(GlossaryLabels, n)}

EmptyGlossary == [has_labels |-> TRUE, labels |-> <<>>]

ClassArgs ==
    {[name |-> <<"x">>, color |-> <<0, 0, 0>>, category |-> None],
     [name |-> <<"y">>, color |-> <<0, 0, 255>>, category |-> Some(<<"k">>)]}

\* the three file names populate derives for file stem.jpg of datadir
ImageArgs(datadir, Stems) ==
    {[raw_filename |-> path(datadir, "images", [stem |-> st, ext |-> "jpg"]),
      image_filename |-> path(datadir, "input", [stem |-> st, ext |-> "jpg"]),
      label_filename |-> path(datadir, "labels", [stem |-> st, ext |-> "png"])] :
        st \in Stems}

\* os.listdir: the files in some order, each name once
Listings(Files) ==
    {l \in SeqsUpTo(Files, Cardinality({f.stem : f \in Files})) :
        \A i, j \in 1..Len(l) : i # j => l[i].stem # l[j].stem}

\* the listings in name order, one of the orders os.listdir can give
StemOrder == [st \in {"a", "b"} |-> IF st = "a" THEN 1 ELSE 2]

SortedListings(Files) ==
    {l \in Listings(Files) :
        \A i, j \in 1..Len(l) : i < j => StemOrder[l[i].stem] < StemOrder[l[j].stem]}

\* files of the target size already, with the classes their masks show
SquareFiles(Stems, size, Masks) ==
    [stem : Stems, ext : {"jpg"}, size : {<<size, size>>}, mask : Masks]

\* files of every raw size up to MaxSide x MaxSide
SizedFiles(Stems) ==
    [stem : Stems, ext : {"jpg"}, size : (1..MaxSide) \X (1..MaxSide), mask : {{0}}]

\* ----------------------------------------------------------- specifications

\* the object before the body of __init__ runs, beside a glossary file
Unconstructed(Docs) ==
    /\ glossary \in Docs
    /\ image_size = 0
    /\ class_info = EmptyDict
    /\ image_info = EmptyDict
    /\ disk = None
    /\ saved = None
    /\ call = [op |-> "new"]

\* the state after Dataset(size, doc)
Constructed(Sizes, Docs) ==
    \E size \in Sizes, doc \in Docs :
        /\ image_size = size
        /\ class_info = build_glossary(EmptyDict, doc)
        /\ image_info = EmptyDict
        /\ glossary = doc
        /\ disk = None
        /\ saved = None
        /\ call = [op |-> "__init__"]

\* a catalog of target size 3 with class 10 and image 0, built by add_class
\* and add_image on an earlier object
EarlierCatalog ==
    [image_size |-> 3,
     class_info |-> add_class_effect(EmptyDict, 10, <<"x">>, <<0, 0, 0>>, None),
     image_info |-> add_image_effect(EmptyDict, 0,
                                     path("d1", "images", [stem |-> "a", ext |-> "jpg"]),
                                     path("d1", "input", [stem |-> "a", ext |-> "jpg"]),
                                     path("d1", "labels", [stem |-> "a", ext |-> "png"]),
                                     <<1>>)]

\* every operation of one catalog, with its file: a fresh catalog, beside no
\* file or beside the file the earlier catalog saved
Init ==
    /\ image_size = 2
    /\ glossary = EmptyGlossary
    /\ class_info = build_glossary(EmptyDict, glossary)
    /\ image_info = EmptyDict
    /\ call = [op |-> "__init__"]
    /\ \/ disk = None /\ saved = None
       \/ /\ disk = Some(save_document(EarlierCatalog.image_size,
                                        EarlierCatalog.class_info,
                                        EarlierCatalog.image_info))
          /\ saved = Some(EarlierCatalog)

Next ==
    \/ add_class({0, 10}, ClassArgs)
    \/ add_image({0, 1}, ImageArgs("d1", {"a", "b"}), {1})
    \/ populate({"d1"}, Listings(SquareFiles({"a", "b"}, 2, {{0, 1}})))
    \/ get_class({0, 10})
    \/ get_image({0, 1})
    \/ get_class_popularity
    \/ save
    \/ load

Spec == Init /\ [][Next]_vars

\* the operations on the two tables, without the file
InitCatalog == Constructed({2}, {EmptyGlossary})

NextCatalog ==
    \/ add_class({0, 1}, ClassArgs)
    \/ add_image({0, 1}, ImageArgs("d1", {"a", "b"}), {0, 1})
    \/ populate({"d1"}, Listings(SquareFiles({"a", "b"}, 2, {{}, {0, 1}})))
    \/ get_class({0, 1})
    \/ get_image({0, 1})
    \/ get_class_popularity

SpecCatalog == InitCatalog /\ [][NextCatalog]_vars

\* populate over raw images of every size
InitPopulate == Constructed({2, 3}, {EmptyGlossary})

NextPopulate ==
    \/ populate({"d1"}, SortedListings(SizedFiles({"a", "b"})))

SpecPopulate == InitPopulate /\ [][NextPopulate]_vars

\* the constructor over every glossary document
InitGlossary == Unconstructed(Glossaries(MaxLabels))

NextGlossary ==
    \/ construct({2})

SpecGlossary == InitGlossary /\ [][NextGlossary]_vars

\* ------------------------------------------------------------------- claims

\* C1: add_class (resp. add_image) with an id the class table (resp. image
\* table) already holds raises nothing and changes neither table nor the
\* target size, whatever its other arguments: the first value stays.
C1_FirstWriteWins ==
    [][/\ (call'.op = "add_class" /\ call'.id \in DOMAIN class_info)
            => (/\ ~call'.raised
                /\ class_info' = class_info
                /\ image_info' = image_info
                /\ image_size' = image_size)
       /\ (call'.op = "add_image" /\ call'.id \in DOMAIN image_info)
            => (/\ ~call'.raised
                /\ class_info' = class_info
                /\ image_info' = image_info
                /\ image_size' = image_size)]_vars

\* a second add_class on a held id, with other values than the stored ones,
\* on a catalog that holds an image too
C1_Witness ==
    /\ call.op = "add_class"
    /\ call.id \in DOMAIN class_info
    /\ class_info[call.id] # call.args
    /\ image_info # EmptyDict

\* C2: after a load of the saved file the target size, the class map and
\* the image map equal, by value and under the same integer ids, those of
\* the catalog that was saved.
C2_RoundTrip ==
    (call.op = "load" /\ ~call.raised) => saved = Some(catalog)

\* a loaded catalog of two classes, one without category and one under a
\* two-digit id, and two images
C2_Witness ==
    /\ call.op = "load"
    /\ ~call.raised
    /\ DOMAIN class_info = {0, 10}
    /\ \E c \in DOMAIN class_info : class_info[c].category = None
    /\ \E c \in DOMAIN class_info : class_info[c].category # None
    /\ DOMAIN image_info = {0, 1}

\* the offset of a crop box along the longer side
box_offset(box) == box[1] + box[2]

\* C3: in populate every pair has one crop offset, the same in the crop of
\* the image and in the crop of the mask, with 0 <= offset <=
\* max(resized width, resized height) - target size, so that both windows
\* lie inside the resized image and mask.
C3_CropOffset ==
    call.op = "populate" =>
        \A n \in DOMAIN call.pairs :
            LET p == call.pairs[n]
            IN  /\ 0 <= p.crop_pix
                /\ p.crop_pix <= Max2(p.img_in[1], p.img_in[2]) - image_size
                /\ box_offset(p.box_in) = p.crop_pix
                /\ box_offset(p.box_out) = p.crop_pix
                /\ p.box_in[3] <= p.img_in[1] /\ p.box_in[4] <= p.img_in[2]
                /\ p.box_out[3] <= p.img_out[1] /\ p.box_out[4] <= p.img_out[2]

\* two pairs cropped at different offsets, one of them at the largest offset
\* its resized image allows
C3_Witness ==
    /\ call.op = "populate"
    /\ Len(call.pairs) = 2
    /\ call.pairs[1].crop_pix # call.pairs[2].crop_pix
    /\ \E n \in 1..2 :
        /\ call.pairs[n].crop_pix > 0
        /\ call.pairs[n].crop_pix
             = Max2(call.pairs[n].img_in[1], call.pairs[n].img_in[2]) - image_size

\* the 1-based positions of the evaluated labels of the glossary document
evaluated_positions == {n \in 1..Len(glossary.labels) : glossary.labels[n].evaluate}

\* C4: after the constructor the class table holds label number i (0-based)
\* of the document under id i if and only if that label is evaluated: one
\* entry per evaluated label, with that label's color.
C4_GlossaryIds ==
    call.op = "__init__" =>
        /\ DOMAIN class_info = {n - 1 : n \in evaluated_positions}
        /\ Cardinality(DOMAIN class_info) = Cardinality(evaluated_positions)
        /\ \A n \in evaluated_positions :
            class_info[n - 1].color = glossary.labels[n].color

\* three labels, the second one not evaluated: ids 0 and 2
C4_Witness ==
    /\ call.op = "__init__"
    /\ Len(glossary.labels) = 3
    /\ glossary.labels[1].evaluate
    /\ ~glossary.labels[2].evaluate
    /\ glossary.labels[3].evaluate
    /\ DOMAIN class_info = {0, 2}

\* C5: for every evaluated label the class name is the last segment of the
\* label name and the category is the segments before it joined with "-";
\* a name of one segment gives an absent category (None), not a string.
C5_NameSplitting ==
    call.op = "__init__" =>
        \A n \in evaluated_positions :
            LET name_items == split(glossary.labels[n].name)
                entry == class_info[n - 1]
            IN  /\ entry.name = name_items[Len(name_items)]
                /\ entry.category =
                     IF Len(name_items) = 1 THEN None
                     ELSE Some(join(SubSeq(name_items, 1, Len(name_items) - 1)))

\* the number of image records with a 1 at (1-based) index k
count_ones(k) ==
    Cardinality({im \in DOMAIN image_info :
                    k <= Len(image_info[im].labels) /\ image_info[im].labels[k] = 1})

\* C6: on a catalog of M >= 1 image records get_class_popularity returns,
\* for every class index k, the count of records with a 1 at k divided by
\* M, rounded to 3 decimal digits (here: the nearest thousandth).
C6_Popularity ==
    (call.op = "get_class_popularity" /\ get_nb_images(image_info) >= 1) =>
        /\ ~call.raised
        /\ call.value # None
        /\ \A im \in DOMAIN image_info : Len(call.value[1]) = Len(image_info[im].labels)
        /\ \A k \in 1..Len(call.value[1]) :
            LET diff == 1000 * count_ones(k) - get_nb_images(image_info) * call.value[1][k]
            IN  2 * diff <= get_nb_images(image_info)
                /\ -2 * diff <= get_nb_images(image_info)

\* C7: on a catalog without image records get_class_popularity returns None
\* and raises nothing, whatever the class table holds.
C7_PopularityEmpty ==
    (call.op = "get_class_popularity" /\ get_nb_images(image_info) = 0) =>
        (~call.raised /\ call.value = None)

\* the call on a catalog of two classes and no image
C7_Witness ==
    /\ call.op = "get_class_popularity"
    /\ get_nb_images(image_info) = 0
    /\ get_nb_class(class_info) = 2
    /\ call.value = None

\* C8: all image records of the catalog have label lists of one length.
C8_LabelLengths ==
    Cardinality(label_lengths(image_info)) <= 1

\* C9: after populate over a listing of N pairs the k-th listed pair
\* (0-based) is the image record under id k, with its own raw, processed
\* and label file names, whatever the catalog held on entry.
C9_PopulateRecords ==
    call.op = "populate" =>
        \A n \in DOMAIN call.pairs :
            /\ (n - 1) \in DOMAIN image_info
            /\ image_info[n - 1].raw_filename = call.pairs[n].raw_filename
            /\ image_info[n - 1].image_filename = call.pairs[n].image_filename
            /\ image_info[n - 1].label_filename = call.pairs[n].label_filename

\* every entry of both tables is, after the step, still there with its value
EntriesKept ==
    /\ \A c \in DOMAIN class_info :
        c \in DOMAIN class_info' /\ class_info'[c] = class_info[c]
    /\ \A im \in DOMAIN image_info :
        im \in DOMAIN image_info' /\ image_info'[im] = image_info[im]

\* C10 as stated: no operation, load included, removes or changes an entry.
C10_Immutable == [][EntriesKept]_vars

\* C10 amended: every operation but load keeps every entry with its value.
C10_ImmutableButLoad == [][call'.op # "load" => EntriesKept]_vars

\* an add_image that found classes and images in the catalog and a saved file
C10_Witness ==
    /\ call.op = "add_image"
    /\ get_nb_class(class_info) = 2
    /\ get_nb_images(image_info) = 2
    /\ disk # None

====
